---- MODULE Spec2Model ----
(***************************************************************************)
(* A model of src/index.js: the Manager (connection orchestrator), its     *)
(* lifecycle batches (operation), the per-connection SQLS (statement       *)
(* store) and DBS (execution proxy).                                       *)
(*                                                                         *)
(* Spec         one call of a lifecycle operation of the Manager (init,    *)
(*              commit, rollback, close) over the configured connections.  *)
(* SpecInits    MaxCalls calls of Manager.init, each made at any time      *)
(*              after the one before it: once that one is through, or      *)
(*              while it is still in flight.                               *)
(* SpecCall     one call of the prepared statement handle of one file of   *)
(*              one connection, with or without a cache.                   *)
(* SpecFrag     DBS.frag by itself, on statement texts with and without    *)
(*              guards, run and run again on what it returned.             *)
(* SpecStatic   a statement file of a connection without a cache: its      *)
(*              handle is prepared and called MaxCalls times while the     *)
(*              file is changed.                                           *)
(* SpecTx       one connection: MaxCalls calls of its handle among         *)
(*              MaxCalls calls of commit, rollback and close.              *)
(* SpecCtor     new Manager(conf) over up to MaxConns connections.         *)
(* SpecTree     SQLS.init over the files of one connection's directory,    *)
(*              and calls of the leaves of the tree it builds.             *)
(* SpecHang     one lifecycle call while the driver of connection A        *)
(*              never returns.                                             *)
(***************************************************************************)
EXTENDS Integers, Sequences, FiniteSets, TLC

\* ------------------------------------------------------------------ bounds
MaxConns == 2
MaxCalls == 2
MaxRuns == 2

\* --------------------------------------------------------- configuration
\* conf.db.connections: the connection names, in registration order.

\* The number of statement files in each connection's directory.
Files == [c \in {"A", "B", "C", "D"} |->
            CASE c = "A" -> 1 [] c = "B" -> 3 [] c = "C" -> 0 [] OTHER -> 2]

VARIABLES
  sqls,                \* mgr.at.sqls: the connection names, one SQLS each
  sqlsCount,           \* mgr.at.sqlsCount (0: not set)
  numOfPreparedStmts,  \* sqls.at.numOfPreparedStmts of each connection
  built,               \* the number of leaf handles in each connection's tree
  batches,             \* the lifecycle calls made so far, each with its tasks
  limit,               \* the number of lifecycle calls the application makes
  initDone             \* history: some Manager.init call has returned

lifeVars ==
  <<sqls, sqlsCount, numOfPreparedStmts, built, batches, limit, initDone>>

VARIABLES
  prefix,              \* the file's name up to its first dot
  cacheOn,             \* whether sqls.at.cache is set
  connBinds,           \* sqls.at.conn.binds
  pending,             \* dbs.at.pending
  store,               \* what the cache holds under the handle's id
  sets,                \* the cache.set calls in flight, nobody awaiting them
  calls                \* the calls of the handle, each with its progress

callVars == <<prefix, cacheOn, connBinds, pending, store, sets, calls>>

VARIABLES
  disk,                \* the content of the statement file, as it is on disk
  kept,                \* the const sql of prepared(): the text a handle
                       \* without cache keeps
  prepared,            \* whether prepared() has built the handle
  freads,              \* history: the number of reads of the file
  hlimit               \* the number of calls of the handle that are made

fileVars == <<disk, kept, prepared, freads, hlimit>>

VARIABLES
  dialect,             \* dbs.at.dialect
  version,             \* dbs.at.version, in tenths
  fin,                 \* the arguments of DBS.frag that are looked at
  fruns                \* the results of DBS.frag on them, run after run

fragVars == <<dialect, version, fin, fruns>>

VARIABLES
  conf,                \* conf.db.connections, as handed to new Manager
  ctor                 \* the Manager constructor: its loop index, the names
                       \* in mgr.db, mgr.at.sqls, and how it ended

VARIABLES
  files,               \* the statement files under the connection's directory
  todo,                \* those of them SQLS.init has not come to yet
  walk,                \* SQLS.init: the prepare() of the directory and the
                       \* one of its subdirectory, and what it handed to
                       \* the driver's init
  logging,             \* whether conn.sql.logging is set
  db,                  \* sqls.at.db: the namespace tree, node by path
  methods,             \* sqls.at.stms.methods[name][ext]
  cached,              \* what the cache holds, by id
  lcall                \* the latest call of a leaf of the tree

treeVars == <<files, todo, walk, logging, db, methods, cached, lcall>>

vars == <<lifeVars, callVars, fileVars, fragVars, conf, ctor, treeVars>>

ConnNames == {sqls[i] : i \in 1..Len(sqls)}

Index(c) == CHOOSE i \in 1..Len(sqls) : sqls[i] = c

\* ---------------------------------------------------------------- values
NoValue == [tag |-> "none", n |-> 0]
Count(k) == [tag |-> "count", n |-> k]
IoError == [tag |-> "ioerr", n |-> 0]
DriverError == [tag |-> "drverr", n |-> 0]

AlreadyInitialized == [type |-> "already", conn |-> ""]
ReferenceError == [type |-> "reference", conn |-> ""]
TaskError(c, r) == [type |-> r.tag, conn |-> c]

NoReturn == [kind |-> "none", n |-> 0, map |-> <<>>]

\* ------------------------------------------------------- lifecycle options
\* opts.connections[c]: an object, with or without an own executeInSeries.
Overrides == {[has |-> FALSE, executeInSeries |-> FALSE],
              [has |-> TRUE, executeInSeries |-> FALSE],
              [has |-> TRUE, executeInSeries |-> TRUE]}

\* opts.connections: absent, or an object with some connection names.
ConnectionsOpts ==
  {[present |-> FALSE, map |-> <<>>]}
    \cup {[present |-> TRUE, map |-> m] :
            m \in UNION {[T -> Overrides] : T \in SUBSET ConnNames}}

LifecycleOpts ==
  [executeInSeries : BOOLEAN, connections : ConnectionsOpts]

\* ...connNames: any names, those of no configured connection included.
ConnNameArgs == SUBSET (ConnNames \cup {"Z"})

\* operation(mgr, 'init') and operation(mgr, 'close') pass no options.
NoOpts == [executeInSeries |-> FALSE,
           connections |-> [present |-> FALSE, map |-> <<>>]]

\* ------------------------------------------------------------- operation
\* for-loop of operation: the connections handed to queue().
Selected(connNames) ==
  IF Cardinality(connNames) = 0 THEN ConnNames ELSE ConnNames \cap connNames

\* queue(), line 283: the identifier `name` is bound nowhere in the module, so
\* once opts.connections is truthy the evaluation of opts.connections[name]
\* raises a ReferenceError, before the task is handed to Asynchro.
QueueRaises(opts) == opts.connections.present

\* queue(), line 283: hasOverride, on the only path that does not raise.
HasOverride(opts, c) == FALSE

\* queue(), lines 284-288: the lane of connection c's task.
InSeries(opts, c) ==
  IF HasOverride(opts, c)
    THEN opts.connections.map[c].executeInSeries
    ELSE opts.executeInSeries

Lane(opts, sel, c) ==
  IF c \notin sel THEN "none" ELSE IF InSeries(opts, c) THEN "seq" ELSE "par"

\* An Asynchro made without `throws`.
ThrowsOff == FALSE

\* operation(), line 278: new Asynchro({}, true), the flag being `throws`.
Throws == TRUE

\* ------------------------------------------------------- Asynchro (ax.run)
\* A task the lanes need not wait for any longer: with `throws` a failed
\* task ends its lane, without it the failure is kept and the lane goes on.
Passed(status) ==
  IF Throws THEN status = "ok" ELSE status \in {"ok", "failed"}

\* An ax.run() that starts a task, of either lane, only once every task
\* registered before it has completed.
StartableInOrder(lane, st) ==
  {c \in ConnNames :
     /\ st[c] = "queued"
     /\ \A d \in ConnNames :
          (lane[d] # "none" /\ Index(d) < Index(c)) => Passed(st[d])}

\* The tasks ax.run() may start now: every queued task of the concurrent
\* lane, and the first queued task of the sequential lane once every
\* sequential task registered before it has completed without failure.
Startable(lane, st) ==
  {c \in ConnNames :
     /\ st[c] = "queued"
     /\ \/ lane[c] = "par"
        \/ /\ lane[c] = "seq"
           /\ \A d \in ConnNames :
                (lane[d] = "seq" /\ Index(d) < Index(c)) => Passed(st[d])}

\* sqli[funcName](): SQLS.init begins its directory walk; SQLS.commit,
\* rollback and close call the driver at once.
StartStatus(op) == IF op = "init" THEN "walking" ELSE "running"

Start(bt) ==
  LET s == Startable(bt.lane, bt.st) IN
  [bt EXCEPT
     !.st = [c \in ConnNames |-> IF c \in s THEN StartStatus(bt.op) ELSE bt.st[c]],
     !.drv = [c \in ConnNames |->
                IF c \in s /\ bt.op # "init" THEN Append(bt.drv[c], bt.op)
                ELSE bt.drv[c]],
     !.walks = [c \in ConnNames |->
                IF c \in s /\ bt.op = "init" THEN bt.walks[c] + 1
                ELSE bt.walks[c]]]

\* The failure ax.run() reports: that of the sequential lane as soon as it
\* has one; otherwise that of the first concurrent task, in registration
\* order, to have failed, once the sequential lane and the concurrent tasks
\* before it are through.
SeqFailed(bt) ==
  {c \in ConnNames : Throws /\ bt.lane[c] = "seq" /\ bt.st[c] = "failed"}

SeqThrough(bt) == \A c \in ConnNames : bt.lane[c] = "seq" => Passed(bt.st[c])

ParFailed(bt) ==
  {c \in ConnNames :
     /\ Throws /\ bt.lane[c] = "par" /\ bt.st[c] = "failed"
     /\ SeqThrough(bt)
     /\ \A d \in ConnNames :
          (bt.lane[d] = "par" /\ Index(d) < Index(c)) => Passed(bt.st[d])}

Reported(bt) == IF SeqFailed(bt) # {} THEN SeqFailed(bt) ELSE ParFailed(bt)

AllThrough(bt) == \A c \in ConnNames : bt.lane[c] # "none" => Passed(bt.st[c])

\* The result object of ax.run(): one property per task, by connection name.
ResultMap(bt) ==
  [c \in {d \in ConnNames : bt.lane[d] # "none"} |-> bt.res[c]]

\* operation(), lines 276-295: the batch with its tasks queued, or failed at
\* the first queue() that raises.
QueuedBatch(op, opts, connNames) ==
  LET sel == Selected(connNames)
      raises == sel # {} /\ QueueRaises(opts)
  IN        [op |-> op, opts |-> opts, filter |-> connNames, late |-> initDone,
             lane |-> [c \in ConnNames |->
                         IF raises THEN "none" ELSE Lane(opts, sel, c)],
             st |-> [c \in ConnNames |->
                       IF raises \/ c \notin sel THEN "none" ELSE "queued"],
             res |-> [c \in ConnNames |-> NoValue],
             drv |-> [c \in ConnNames |-> <<>>],
             walks |-> [c \in ConnNames |-> 0],
             status |-> IF raises THEN "rejected" ELSE "pending",
             err |-> IF raises THEN ReferenceError ELSE [type |-> "none", conn |-> ""],
             ret |-> NoReturn]

\* A queue() that calls func() itself instead of handing it to Asynchro.
NewBatchEager(op, opts, connNames) ==
  LET bt == QueuedBatch(op, opts, connNames) IN
  [bt EXCEPT
     !.st = [c \in ConnNames |->
               IF bt.st[c] = "queued" THEN StartStatus(op) ELSE bt.st[c]],
     !.drv = [c \in ConnNames |->
                IF bt.st[c] = "queued" /\ op # "init" THEN <<op>> ELSE <<>>],
     !.walks = [c \in ConnNames |->
                  IF bt.st[c] = "queued" /\ op = "init" THEN 1 ELSE 0]]

\* operation(): the batch is queued and ax.run() is called (line 296).
NewBatch(op, opts, connNames) == Start(QueuedBatch(op, opts, connNames))

\* A call the Manager turns down before operation() is reached.
RefusedBatch(op, e) ==
  [op |-> op, opts |-> NoOpts, filter |-> {}, late |-> initDone,
   lane |-> [c \in ConnNames |-> "none"],
   st |-> [c \in ConnNames |-> "none"],
   res |-> [c \in ConnNames |-> NoValue],
   drv |-> [c \in ConnNames |-> <<>>],
   walks |-> [c \in ConnNames |-> 0],
   status |-> "rejected", err |-> e, ret |-> NoReturn]

\* SQLS.init, line 336: every walk this batch begins resets the counter.
ResetCounts(bt) ==
  [c \in ConnNames |->
     IF bt.op = "init" /\ bt.st[c] = "walking" THEN 0 ELSE numOfPreparedStmts[c]]

\* ---------------------------------------------------------------- actions
\* The application calls the Manager, at any time.
CanCall == Len(batches) < limit

Push(bt) == Append(batches, bt)

\* Manager.init
AlreadyInitializedGuard == sqlsCount # 0

ManagerInit ==
  /\ CanCall
  /\ IF AlreadyInitializedGuard
       THEN /\ batches' = Push(RefusedBatch("init", AlreadyInitialized))
            /\ UNCHANGED numOfPreparedStmts
       ELSE LET bt == NewBatch("init", NoOpts, {}) IN
            /\ batches' = Push(bt)
            /\ numOfPreparedStmts' = ResetCounts(bt)
  /\ UNCHANGED <<sqls, sqlsCount, built, limit, initDone, callVars, fileVars, fragVars, conf, ctor, treeVars>>

\* Manager.commit, Manager.rollback
ManagerCommit(opts, connNames) ==
  /\ CanCall
  /\ batches' = Push(NewBatch("commit", opts, connNames))
  /\ UNCHANGED <<sqls, sqlsCount, numOfPreparedStmts, built, limit, initDone, callVars, fileVars, fragVars, conf, ctor, treeVars>>

ManagerRollback(opts, connNames) ==
  /\ CanCall
  /\ batches' = Push(NewBatch("rollback", opts, connNames))
  /\ UNCHANGED <<sqls, sqlsCount, numOfPreparedStmts, built, limit, initDone, callVars, fileVars, fragVars, conf, ctor, treeVars>>

\* Manager.close
ManagerClose ==
  /\ CanCall
  /\ batches' = Push(NewBatch("close", NoOpts, {}))
  /\ UNCHANGED <<sqls, sqlsCount, numOfPreparedStmts, built, limit, initDone, callVars, fileVars, fragVars, conf, ctor, treeVars>>

\* SQLS.init: the walk of connection c's directory ends, every file has its
\* leaf (a leaf already in the tree is kept, line 356), and the driver's init
\* is called with the counter.
WalkDone(b, c) ==
  /\ batches[b].st[c] = "walking"
  /\ LET n == numOfPreparedStmts[c] + (Files[c] - built[c]) IN
     /\ numOfPreparedStmts' = [numOfPreparedStmts EXCEPT ![c] = n]
     /\ built' = [built EXCEPT ![c] = Files[c]]
     /\ batches' = [batches EXCEPT ![b].st[c] = "running",
                                   ![b].res[c] = Count(n),
                                   ![b].drv[c] = Append(@, "init")]
  /\ UNCHANGED <<sqls, sqlsCount, limit, initDone, callVars, fileVars, fragVars, conf, ctor, treeVars>>

\* SQLS.init: readdir, stat or readFile fails after k leaves are in the tree.
WalkFail(b, c, k) ==
  /\ batches[b].st[c] = "walking"
  /\ k >= built[c]
  /\ numOfPreparedStmts' =
       [numOfPreparedStmts EXCEPT ![c] = @ + (k - built[c])]
  /\ built' = [built EXCEPT ![c] = k]
  /\ batches' = [batches EXCEPT ![b].st[c] = "failed", ![b].res[c] = IoError]
  /\ UNCHANGED <<sqls, sqlsCount, limit, initDone, callVars, fileVars, fragVars, conf, ctor, treeVars>>

\* What the driver's operation may return: init gets the counter and returns
\* its pool, or whatever else the driver likes (here: the counter it got).
DriverResults(bt, c) ==
  IF bt.op = "init" THEN {[tag |-> "pool", n |-> 0], bt.res[c]} ELSE {NoValue}

\* The driver's operation returns, and the sequential lane moves on.
DriverReturn(b, c, r) ==
  /\ batches[b].st[c] = "running"
  /\ r \in DriverResults(batches[b], c)
  /\ batches' = [batches EXCEPT
       ![b] = Start([@ EXCEPT !.st[c] = "ok", !.res[c] = r])]
  /\ UNCHANGED <<sqls, sqlsCount, numOfPreparedStmts, built, limit, initDone, callVars, fileVars, fragVars, conf, ctor, treeVars>>

\* The driver's operation fails.
DriverFail(b, c) ==
  /\ batches[b].st[c] = "running"
  /\ batches' = [batches EXCEPT ![b].st[c] = "failed", ![b].res[c] = DriverError]
  /\ UNCHANGED <<sqls, sqlsCount, numOfPreparedStmts, built, limit, initDone, callVars, fileVars, fragVars, conf, ctor, treeVars>>

\* Manager.init, lines 215-217: what init makes of the result of its batch.
InitCount(rslt) == Cardinality(DOMAIN rslt)

InitReturn(rslt) == [kind |-> "number", n |-> InitCount(rslt), map |-> <<>>]

\* ax.run() settles and the Manager's method returns or throws.
Settle(b) ==
  /\ batches[b].status = "pending"
  /\ LET bt == batches[b] IN
     \/ /\ Reported(bt) # {}
        /\ \E c \in Reported(bt) :
             batches' = [batches EXCEPT ![b].status = "rejected",
                                        ![b].err = TaskError(c, bt.res[c])]
        /\ UNCHANGED <<sqlsCount, initDone>>
     \/ /\ AllThrough(bt)
        /\ IF bt.op = "init"
             THEN /\ sqlsCount' = InitCount(ResultMap(bt))
                  /\ initDone' = TRUE
                  /\ batches' = [batches EXCEPT
                       ![b].status = "resolved",
                       ![b].ret = InitReturn(ResultMap(bt))]
             ELSE /\ UNCHANGED <<sqlsCount, initDone>>
                  /\ batches' = [batches EXCEPT
                       ![b].status = "resolved",
                       ![b].ret = [kind |-> "map", n |-> 0, map |-> ResultMap(bt)]]
  /\ UNCHANGED <<sqls, numOfPreparedStmts, built, limit, callVars, fileVars, fragVars, conf, ctor, treeVars>>

\* ----------------------------------------------------------- specification
\* new Manager(conf): one SQLS per connection, nothing initialized.
LifeInit ==
  /\ sqls \in {SubSeq(<<"A", "B", "C", "D">>, 1, n) : n \in 0..MaxConns}
  /\ sqlsCount = 0
  /\ numOfPreparedStmts = [c \in ConnNames |-> 0]
  /\ built = [c \in ConnNames |-> 0]
  /\ batches = <<>>
  /\ initDone = FALSE

LifeNext ==
  \/ ManagerInit
  \/ \E opts \in LifecycleOpts, connNames \in ConnNameArgs :
       ManagerCommit(opts, connNames)
  \/ \E opts \in LifecycleOpts, connNames \in ConnNameArgs :
       ManagerRollback(opts, connNames)
  \/ ManagerClose
  \/ \E b \in 1..Len(batches), c \in ConnNames : WalkDone(b, c)
  \/ \E b \in 1..Len(batches), c \in ConnNames :
       \E k \in 0..Files[c] : WalkFail(b, c, k)
  \/ \E b \in 1..Len(batches), c \in ConnNames :
       \E r \in DriverResults(batches[b], c) : DriverReturn(b, c, r)
  \/ \E b \in 1..Len(batches), c \in ConnNames : DriverFail(b, c)
  \/ \E b \in 1..Len(batches) : Settle(b)

\* ================================================= the statement handle
\* line 9
CRUD_TYPES == {"CREATE", "READ", "UPDATE", "DELETE"}

\* String.prototype.toUpperCase, on the file name prefixes used here.
ToUpperCase(str) ==
  CASE str = "read" -> "READ"
    [] str = "Update" -> "UPDATE"
    [] str = "DELETE" -> "DELETE"
    [] str = "find" -> "FIND"
    [] OTHER -> str

\* prepared(), lines 380-381: the category the file name gives, or null.
CrudOf(name) ==
  IF ToUpperCase(name) \in CRUD_TYPES THEN ToUpperCase(name) ELSE "null"

crud == CrudOf(prefix)

\* ------------------------------------------------------------ bind values
Num(v) == [t |-> "num", v |-> v, e |-> <<>>]
Str(v) == [t |-> "str", v |-> v, e |-> <<>>]
Date(v) == [t |-> "date", v |-> v, e |-> <<>>]
Arr(e) == [t |-> "arr", v |-> "", e |-> e]

\* Date.prototype.toISOString
ToISOString(d) == Str("iso:" \o d.v)

BindNames == {"a", "b"}

\* What a connection's binds hold, and what a call's binds hold.

ConnBindSets == UNION {[T -> {Num("1"), Date("D1")}] : T \in SUBSET BindNames}
CallBindSets == UNION {[T -> {Num("2"), Date("D2")}] : T \in SUBSET BindNames}

\* --------------------------------------------------------- statement text
\* The one value of a set of one value: the value of an expression, worked
\* out once.
The(S) == CHOOSE x \in S : TRUE

\* A statement text is a sequence of tokens: a stretch of plain text, a
\* parameter token (a colon, letters, then digits), a line break, the two
\* dashes of a comment, and the opening and closing markers of the guards.
Tok(k, v, d, op, sg) == [k |-> k, v |-> v, d |-> d, op |-> op, sg |-> sg]

Txt(v) == Tok("txt", v, "", "", "")
Par(v) == Tok("par", v, "", "", "")
ParDigits(v, d) == Tok("par", v, d, "", "")
Nl == Tok("nl", "", "", "", "")

\* [[! name]] and [[!]]
DiaOpen(name) == Tok("dia", name, "", "", "")
DiaClose == Tok("dia/", "", "", "", "")

\* [[version OP N]] and [[version]]: the comparator, the sign and the rest
\* of the literal.
VerOpen(op, sg, lit) == Tok("ver", lit, "", op, sg)
VerClose == Tok("ver/", "", "", "", "")

\* [[? key]] and [[?]]
SelOpen(key) == Tok("sel", key, "", "", "")
SelClose == Tok("sel/", "", "", "", "")

\* The content of the statement file.
FileText == <<Txt("SELECT * FROM "), Txt("TBL"), Txt(" WHERE A = "), Par("a")>>

\* psopts.substitutes
Substitutes == [from |-> "TBL", to |-> "USERS"]

\* readSqlFile(), line 415
Substituted(data) ==
  [i \in 1..Len(data) |->
     IF data[i].k = "txt" /\ data[i].v = Substitutes.from
       THEN Txt(Substitutes.to) ELSE data[i]]

\* ------------------------------------------------ frag(): array expansion
\* sqlArrayRpl, line 566: keys, the tokens :key, :key1, ... of the values.
RECURSIVE ArrayKeys(_, _, _)
ArrayKeys(key, i, l) ==
  IF i >= l THEN <<>>
  ELSE (IF i = 0 THEN <<Par(key)>>
        ELSE <<Txt(", "), ParDigits(key, ToString(i))>>)
         \o ArrayKeys(key, i + 1, l)

\* The bind set with the siblings key1, key2, ... added and the collection
\* left under key.
RECURSIVE ArrayBindsSiblings(_, _, _, _)
ArrayBindsSiblings(rplmts, key, vals, i) ==
  IF i >= Len(vals) THEN rplmts
  ELSE LET nm == key \o ToString(i)
           nxt == IF i = 0 THEN rplmts
                  ELSE [n \in DOMAIN rplmts \cup {nm} |->
                          IF n = nm THEN vals[i + 1] ELSE rplmts[n]]
       IN ArrayBindsSiblings(nxt, key, vals, i + 1)

\* sqlArrayRpl, line 567: rplmts[key + (i || '')] = vals[i]. The entry under
\* key itself becomes vals[0].
RECURSIVE ArrayBinds(_, _, _, _)
ArrayBinds(rplmts, key, vals, i) ==
  IF i >= Len(vals) THEN rplmts
  ELSE LET nm == IF i = 0 THEN key ELSE key \o ToString(i)
           nxt == [n \in DOMAIN rplmts \cup {nm} |->
                     IF n = nm THEN vals[i + 1] ELSE rplmts[n]]
       IN ArrayBinds(nxt, key, vals, i + 1)

\* A replacement that returns keys when there are none.
sqlArrayNone(tok) == <<>>

\* sqlArrayRpl, line 569: with no keys the match is returned, pkey + key.
sqlArrayKeep(tok) == <<tok>>

\* The tokens ks followed by the text d.
Followed(ks, d) == [ks EXCEPT ![Len(ks)].d = @ \o d]

\* frag(), lines 564-570. The expression /(:)([a-z]+[0-9]*?)/gi matches the
\* colon and the letters of a parameter token: its digits are optional and
\* lazy and nothing follows them in the expression, so they match the empty
\* text. key is the letters, and the token's digits stay in the text behind
\* what replaces the match.
RECURSIVE sqlArrayRpl(_, _, _)
sqlArrayRpl(sql, i, rplmts) ==
  IF i > Len(sql) THEN [sql |-> <<>>, binds |-> rplmts]
  ELSE IF sql[i].k = "par" /\ sql[i].v \in DOMAIN rplmts /\ rplmts[sql[i].v].t = "arr" /\ Len(rplmts[sql[i].v].e) > 0
    THEN The({ [sql |-> Followed(ArrayKeys(sql[i].v, 0, Len(vals)), sql[i].d)
                          \o rest.sql,
                binds |-> rest.binds] :
               vals \in {rplmts[sql[i].v].e},
               rest \in {sqlArrayRpl(sql, i + 1,
                            ArrayBinds(rplmts, sql[i].v, rplmts[sql[i].v].e, 0))} })
    ELSE The({ [sql |-> (IF sql[i].k = "par" THEN sqlArrayKeep(sql[i])
                         ELSE <<sql[i]>>) \o rest.sql,
                binds |-> rest.binds] :
               rest \in {sqlArrayRpl(sql, i + 1, rplmts)} })

\* ---------------------------------------------------- frag(): the guards
\* A name as it is written.
SameCase(str) == str

\* String.prototype.toLowerCase, on the dialect names used here.
ToLowerCase(str) ==
  CASE str = "ORACLE" -> "oracle"
    [] str = "Oracle" -> "oracle"
    [] OTHER -> str

\* parseFloat, in tenths, of the texts that \d+\.?\d* matches.
ParseFloat ==
  [lit \in {"1", "1.9", "2"} |->
     CASE lit = "1" -> 10 [] lit = "1.9" -> 19 [] OTHER -> 20]

\* lines 10-17
COMPARE(op, x, y) ==
  CASE op = "=" -> x = y
    [] op = "<" -> x < y
    [] op = ">" -> x > y
    [] op = "<=" -> x <= y
    [] op = ">=" -> x >= y
    [] op = "<>" -> x # y

Comparators == {"=", "<", ">", "<=", ">=", "<>"}

\* (?:\r?\n|\n)* : the line breaks from position i on.
RECURSIVE NlRun(_, _)
NlRun(sql, i) ==
  IF i <= Len(sql) /\ sql[i].k = "nl" THEN 1 + NlRun(sql, i + 1) ELSE 0

\* What the three expressions take for an opening marker of their kind: the
\* one of the version guard needs a comparator and, after an optional sign
\* that is outside the group, digits with an optional fraction.
IsOpening(tok, g) ==
  /\ tok.k = g
  /\ g = "ver" => (tok.op \in Comparators /\ tok.v \in DOMAIN ParseFloat)

NoMatch ==
  [ok |-> FALSE, lb1 |-> <<>>, key |-> Txt(""), fsql |-> <<>>, lb2 |-> <<>>,
   next |-> 0]

\* lines 571, 574, 577: a match of the expression of guard g that begins at
\* position i. lb1 is the line breaks before the marker, then come up to two
\* dashes, the opening marker, line breaks, fsql up to the first closing
\* marker (less the dashes before it), and lb2, the line breaks after it.
Match(sql, i, g) ==
  LET j == i + NlRun(sql, i)
      o == IF j <= Len(sql) /\ sql[j].k = "dash" THEN j + 1 ELSE j
  IN IF o > Len(sql) \/ ~IsOpening(sql[o], g) THEN NoMatch
     ELSE LET s == o + 1 + NlRun(sql, o + 1)
              cs == {c \in s..Len(sql) : sql[c].k = g \o "/"}
          IN IF cs = {} THEN NoMatch
             ELSE LET c == CHOOSE x \in cs : \A y \in cs : x <= y
                      e == IF c - 1 >= s /\ sql[c - 1].k = "dash"
                             THEN c - 2 ELSE c - 1
                      n == NlRun(sql, c + 1)
                  IN [ok |-> TRUE, lb1 |-> SubSeq(sql, i, j - 1),
                      key |-> sql[o], fsql |-> SubSeq(sql, s, e),
                      lb2 |-> SubSeq(sql, c + 1, c + n), next |-> c + 1 + n]

\* ((lb1 || lb2) && ' ') || ''
Collapsed(lb1, lb2) == IF lb1 # <<>> \/ lb2 # <<>> THEN <<Txt(" ")>> ELSE <<>>

\* line 572
sqlDiaRpl(lb1, key, fsql, lb2) ==
  IF ToLowerCase(key.v) = dialect /\ fsql # <<>> THEN lb1 \o fsql
  ELSE Collapsed(lb1, lb2)

\* line 575: ver is the digits the group took, without the sign.
sqlVerRpl(lb1, key, fsql, lb2) ==
  IF COMPARE(key.op, version, ParseFloat[key.v]) /\ fsql # <<>> THEN lb1 \o fsql
  ELSE Collapsed(lb1, lb2)

\* A replacement that keeps every fragment.
sqlFragAll(lb1, key, fsql, lb2, keys) ==
  IF fsql # <<>> THEN lb1 \o fsql ELSE Collapsed(lb1, lb2)

\* line 578
sqlFragRpl(lb1, key, fsql, lb2, keys) ==
  IF keys.given /\ key.v \in keys.keys /\ fsql # <<>> THEN lb1 \o fsql
  ELSE Collapsed(lb1, lb2)

\* sql.replace(expression of guard g, function), from position i on.
RECURSIVE Replace(_, _, _, _)
Replace(sql, i, g, keys) ==
  IF i > Len(sql) THEN <<>>
  ELSE The({
       IF m.ok
         THEN (CASE g = "dia" -> sqlDiaRpl(m.lb1, m.key, m.fsql, m.lb2)
                 [] g = "ver" -> sqlVerRpl(m.lb1, m.key, m.fsql, m.lb2)
                 [] OTHER -> sqlFragRpl(m.lb1, m.key, m.fsql, m.lb2, keys))
                \o Replace(sql, m.next, g, keys)
         ELSE <<sql[i]>> \o Replace(sql, i + 1, g, keys) :
       m \in {Match(sql, i, g)} })

\* frag(), lines 561-580: the four passes, in this order.
frag(sql, keys, rplmts) ==
  IF Len(sql) = 0 THEN [sql |-> sql, binds |-> rplmts]
  ELSE The({ [sql |-> The({ The({ Replace(ver, 1, "sel", keys) :
                                  ver \in {Replace(dia, 1, "ver", keys)} }) :
                            dia \in {Replace(arr.sql, 1, "dia", keys)} }),
              binds |-> arr.binds] :
             arr \in {sqlArrayRpl(sql, 1, rplmts)} })

\* ------------------------------------------------------------ the options
\* The opts argument of a call: given or not, with or without type, binds
\* and returnErrors.
NoBinds == <<>>

ExecOptions ==
  {[given |-> FALSE, type |-> "", hasBinds |-> FALSE, binds |-> NoBinds,
    returnErrors |-> FALSE]}
    \cup [given : {TRUE}, type : {"", "READ", "UPDATE"}, hasBinds : {FALSE},
          binds : {NoBinds}, returnErrors : BOOLEAN]
    \cup [given : {TRUE}, type : {"", "READ", "UPDATE"}, hasBinds : {TRUE},
          binds : CallBindSets, returnErrors : BOOLEAN]

\* The frags argument of a call.
NoFrags == [given |-> FALSE, keys |-> {}]

\* A read of opts.type, opts.binds: undefined when there is no opts.binds.
CallBinds(opts) == IF opts.given /\ opts.hasBinds THEN opts.binds ELSE NoBinds

\* execSqlPublic(), line 436: a Date becomes its ISO text.
ToAnsi(v) == IF v.t = "date" THEN ToISOString(v) ELSE v

\* The bind set with the connection's binds winning over the call's.
MergedDefaultsFirst(opts) ==
  [n \in DOMAIN connBinds \cup DOMAIN CallBinds(opts) |->
     IF n \in DOMAIN connBinds THEN connBinds[n] ELSE ToAnsi(CallBinds(opts)[n])]

\* execSqlPublic(), lines 429-438: the bind set of the call.
Merged(opts) ==
  [n \in DOMAIN connBinds \cup DOMAIN CallBinds(opts) |->
     IF n \in DOMAIN CallBinds(opts) THEN ToAnsi(CallBinds(opts)[n])
     ELSE connBinds[n]]

\* execSqlPublic(), line 426: no category from the file name, none given.
NoCategory(opts) == crud = "null" /\ (~opts.given \/ opts.type = "")

\* genExecSqlFromFileFunction(), line 444: opts = { type, binds }. The call's
\* returnErrors is not among them, so DBS.exec reads it as undefined.
ExecOpts(type, binds, opts) ==
  [type |-> type, binds |-> binds, returnErrors |-> FALSE]

\* ----------------------------------------------------------------- a call

NoEntry == [has |-> FALSE, item |-> <<>>]
Entry(sql) == [has |-> TRUE, item |-> sql]

\* got is what cache.get returned to the call, put what the call handed to
\* cache.set.
NewCall(opts, frags) ==
  [opts |-> opts, frags |-> frags, pc |-> "new",
   eopts |-> ExecOpts("", NoBinds, opts),
   gets |-> 0, reads |-> 0, execs |-> 0, got |-> NoEntry, put |-> NoEntry,
   resolved |-> FALSE, binds0 |-> NoBinds, handed |-> [sql |-> <<>>, type |-> "", binds |-> NoBinds, pending |-> 0],
   ret |-> "none", err |-> "none"]

\* A DBS.exec that leaves the counter as it is.
PendingUncounted(eopts) == pending

\* DBS.exec(), lines 529-539, up to the driver's exec: the text is resolved,
\* the counter is raised for a non-read and the driver is called.
PendingAfter(eopts) == pending + (IF eopts.type = "READ" THEN 0 ELSE 1)

Exec(cl, sql) ==
  The({ [cl EXCEPT !.pc = "exec", !.execs = @ + 1,
                   !.resolved = TRUE, !.binds0 = cl.eopts.binds,
                   !.handed = [sql |-> f.sql, type |-> cl.eopts.type,
                               binds |-> f.binds,
                               pending |-> PendingAfter(cl.eopts)]] :
        f \in {frag(sql, cl.frags, cl.eopts.binds)} })

\* The text of the file as it is now.
staticSqlFresh == Substituted(disk)

\* prepared(), lines 403-406: staticSql hands the text that prepared() read
\* to execFn.
staticSql == kept

\* The application calls the handle.
CanCallHandle == prepared /\ Len(calls) < hlimit

\* execSqlPublic(), lines 424-440. Line 427: the message of the error to
\* reject with reads OPERATION_TYPES, an identifier bound nowhere in the
\* module, so building it raises a ReferenceError instead. Line 439:
\* opts.type is read whether or not opts was given, a TypeError without.
execSqlPublic(opts, frags) ==
  /\ CanCallHandle
  /\ LET cl == NewCall(opts, frags) IN
     IF NoCategory(opts)
       THEN /\ calls' = Append(calls, [cl EXCEPT !.pc = "thrown", !.err = "ReferenceError"])
            /\ UNCHANGED pending
     ELSE IF ~opts.given
       THEN /\ calls' = Append(calls, [cl EXCEPT !.pc = "thrown", !.err = "TypeError"])
            /\ UNCHANGED pending
     ELSE LET type == IF opts.type # "" THEN opts.type ELSE crud
              ready == [cl EXCEPT !.eopts = ExecOpts(type, Merged(opts), opts)]
          IN IF cacheOn
               THEN /\ calls' = Append(calls, [ready EXCEPT !.pc = "get", !.gets = 1])
                    /\ UNCHANGED pending
               ELSE /\ calls' = Append(calls, Exec(ready, staticSql))
                    /\ pending' = PendingAfter(ready.eopts)
  /\ UNCHANGED <<prefix, cacheOn, connBinds, store, sets, lifeVars, fileVars, fragVars, conf, ctor, treeVars>>

\* cachedSql(), lines 393-399: cache.get returns. A hit goes on to the driver,
\* a miss to the disk.
cachedSql(i) ==
  /\ calls[i].pc = "get"
  /\ IF store.has /\ Len(store.item) > 0
       THEN /\ calls' = [calls EXCEPT
                 ![i] = Exec([@ EXCEPT !.got = store], store.item)]
            /\ pending' = PendingAfter(calls[i].eopts)
       ELSE /\ calls' = [calls EXCEPT ![i].pc = "read", ![i].reads = @ + 1,
                                      ![i].got = store]
            /\ UNCHANGED pending
  /\ UNCHANGED <<prefix, cacheOn, connBinds, store, sets, lifeVars, fileVars, fragVars, conf, ctor, treeVars>>

\* cache.get fails.
CacheGetFail(i) ==
  /\ calls[i].pc = "get"
  /\ calls' = [calls EXCEPT ![i].pc = "thrown", ![i].err = "CacheError"]
  /\ UNCHANGED <<prefix, cacheOn, connBinds, pending, store, sets, lifeVars, fileVars, fragVars, conf, ctor, treeVars>>

\* readSqlFile() returns to cachedSql(), lines 396-399: cache.set is called
\* and not awaited, and the text goes on to the driver.
readSqlFile(i) ==
  /\ calls[i].pc = "read"
  /\ freads' = freads + 1
  /\ sets' = sets \cup {Substituted(disk)}
  /\ calls' = [calls EXCEPT
       ![i] = Exec([@ EXCEPT !.put = Entry(Substituted(disk))],
                   Substituted(disk))]
  /\ pending' = PendingAfter(calls[i].eopts)
  /\ UNCHANGED <<prefix, cacheOn, connBinds, store, lifeVars,
                 disk, kept, prepared, hlimit, fragVars, conf, ctor, treeVars>>

\* Fs.promises.readFile fails.
ReadFail(i) ==
  /\ calls[i].pc = "read"
  /\ calls' = [calls EXCEPT ![i].pc = "thrown", ![i].err = "IoError"]
  /\ UNCHANGED <<prefix, cacheOn, connBinds, pending, store, sets, lifeVars, fileVars, fragVars, conf, ctor, treeVars>>

\* A cache.set in flight stores its text, or fails.
CacheSet(sql) ==
  /\ sql \in sets
  /\ sets' = sets \ {sql}
  /\ store' = Entry(sql)
  /\ UNCHANGED <<prefix, cacheOn, connBinds, pending, calls, lifeVars, fileVars, fragVars, conf, ctor, treeVars>>

CacheSetFail(sql) ==
  /\ sql \in sets
  /\ sets' = sets \ {sql}
  /\ UNCHANGED <<prefix, cacheOn, connBinds, pending, store, calls, lifeVars, fileVars, fragVars, conf, ctor, treeVars>>

\* cachedSql(), line 397: the promise of cache.set is dropped, nothing
\* catches its rejection. What the runtime makes of an unhandled rejection
\* is its own choice: a warning (CacheSetFail), or the end of the process
\* with every call in flight.
Aborted(cl) ==
  IF cl.pc \in {"get", "read", "exec"} THEN [cl EXCEPT !.pc = "aborted"] ELSE cl

CacheSetUnhandled(sql) ==
  /\ sql \in sets
  /\ sets' = {}
  /\ calls' = [i \in 1..Len(calls) |-> Aborted(calls[i])]
  /\ hlimit' = Len(calls)
  /\ UNCHANGED <<prefix, cacheOn, connBinds, pending, store, lifeVars,
                 disk, kept, prepared, freads, fragVars, conf, ctor, treeVars>>

\* DBS.exec(), lines 539, 550: the driver's exec returns its result.
ExecReturn(i) ==
  /\ calls[i].pc = "exec"
  /\ calls' = [calls EXCEPT
       ![i].pc = "returned",
       ![i].ret = IF calls[i].eopts.type = "READ" THEN "rows" ELSE "undefined"]
  /\ UNCHANGED <<prefix, cacheOn, connBinds, pending, store, sets, lifeVars, fileVars, fragVars, conf, ctor, treeVars>>

\* DBS.exec(), lines 540-546: the driver's exec fails.
ExecFail(i) ==
  /\ calls[i].pc = "exec"
  /\ calls' = [calls EXCEPT
       ![i] = IF calls[i].eopts.returnErrors
                THEN [@ EXCEPT !.pc = "returned", !.ret = "DriverError"]
                ELSE [@ EXCEPT !.pc = "thrown", !.err = "DriverError"]]
  /\ UNCHANGED <<prefix, cacheOn, connBinds, pending, store, sets, lifeVars, fileVars, fragVars, conf, ctor, treeVars>>

\* ----------------------------------------------------------- specification
\* DBS constructor, lines 506-507, of a connection of dialect oracle without
\* a version; DBS.frag is not looked at by itself.
NoInput ==
  [kind |-> "none", text |-> <<>>, pre |-> <<>>, lb1 |-> 0, dash |-> FALSE,
   open |-> Txt(""), lbin |-> 0, inner |-> <<>>, lb2 |-> 0, post |-> <<>>,
   keys |-> NoFrags, binds |-> NoBinds, cd |-> "oracle",
   cv |-> [has |-> FALSE, n |-> 0]]

\* The constructor has returned long ago.
CtorIdle ==
  /\ conf = <<>>
  /\ ctor = [i |-> 0, names |-> {}, sqls |-> <<>>, status |-> "constructed",
             err |-> "none"]

\* No directory is walked.
TreeIdle ==
  /\ files = {}
  /\ todo = {}
  /\ walk = [top |-> "done", sub |-> "none", reported |-> 0, err |-> "none"]
  /\ logging = FALSE
  /\ db = <<>>
  /\ methods = <<>>
  /\ cached = <<>>
  /\ lcall = <<>>

FragIdle ==
  /\ dialect = "oracle"
  /\ version = 0
  /\ fin = NoInput
  /\ fruns = <<>>

\* The Manager of connection A, at rest while its handle is called.
LifeIdle ==
  /\ sqls = <<"A">>
  /\ sqlsCount = 0
  /\ numOfPreparedStmts = [c \in {"A"} |-> 0]
  /\ built = [c \in {"A"} |-> 0]
  /\ batches = <<>>
  /\ limit = 0
  /\ initDone = FALSE

\* A connection whose statement store is initialized: the handle is built.
CallInit ==
  /\ LifeIdle
  /\ prefix \in {"read", "Update", "DELETE", "find"}
  /\ cacheOn \in BOOLEAN
  /\ connBinds \in ConnBindSets
  /\ pending = 0
  /\ store \in IF cacheOn
                THEN {NoEntry, Entry(<<>>), Entry(Substituted(FileText))}
                ELSE {NoEntry}
  /\ sets = {}
  /\ calls = <<>>
  /\ disk = FileText
  /\ kept = IF cacheOn THEN <<>> ELSE Substituted(FileText)
  /\ prepared = TRUE
  /\ freads = IF cacheOn THEN 0 ELSE 1
  /\ hlimit = 1
  /\ FragIdle
  /\ CtorIdle
  /\ TreeIdle

CallNext ==
  \/ \E opts \in ExecOptions : execSqlPublic(opts, NoFrags)
  \/ \E i \in 1..Len(calls) : cachedSql(i)
  \/ \E i \in 1..Len(calls) : CacheGetFail(i)
  \/ \E i \in 1..Len(calls) : readSqlFile(i)
  \/ \E i \in 1..Len(calls) : ReadFail(i)
  \/ \E sql \in sets : CacheSet(sql)
  \/ \E sql \in sets : CacheSetFail(sql)
  \/ \E sql \in sets : CacheSetUnhandled(sql)
  \/ \E i \in 1..Len(calls) : ExecReturn(i)
  \/ \E i \in 1..Len(calls) : ExecFail(i)

\* No handle is built or called while the Manager's lifecycle is looked at.
CallIdle ==
  /\ prefix = "read"
  /\ cacheOn = FALSE
  /\ connBinds = <<>>
  /\ pending = 0
  /\ store = NoEntry
  /\ sets = {}
  /\ calls = <<>>
  /\ disk = FileText
  /\ kept = <<>>
  /\ prepared = FALSE
  /\ freads = 0
  /\ hlimit = 0
  /\ FragIdle

Init == LifeInit /\ limit = 1 /\ CallIdle /\ CtorIdle /\ TreeIdle

Next == LifeNext

Spec == Init /\ [][Next]_vars

\* Manager.init called again and again.
InitsInit == LifeInit /\ limit = MaxCalls /\ CallIdle /\ CtorIdle /\ TreeIdle

InitsNext ==
  \/ ManagerInit
  \/ \E b \in 1..Len(batches), c \in ConnNames : WalkDone(b, c)
  \/ \E b \in 1..Len(batches), c \in ConnNames :
       \E k \in 0..Files[c] : WalkFail(b, c, k)
  \/ \E b \in 1..Len(batches), c \in ConnNames :
       \E r \in DriverResults(batches[b], c) : DriverReturn(b, c, r)
  \/ \E b \in 1..Len(batches), c \in ConnNames : DriverFail(b, c)
  \/ \E b \in 1..Len(batches) : Settle(b)

SpecInits == InitsInit /\ [][InitsNext]_vars

SpecCall == CallInit /\ [][CallNext]_vars

\* ------------------------------------------------- DBS.frag by itself
\* DBS constructor, line 507: conn.version || 0
NoVersion == [has |-> FALSE, n |-> 0]
Version(n) == [has |-> TRUE, n |-> n]
DbsVersion(cv) == IF cv.has THEN cv.n ELSE 0

\* A text with one guard span: pre, line breaks, the opening marker, line
\* breaks, the inner text, the closing marker, line breaks, post.
SpanText(pre, lb1, dash, open, lbin, inner, lb2, post) ==
  LET Nls(n) == [i \in 1..n |-> Nl]
      Dashes(d) == IF d THEN <<Tok("dash", "", "", "", "")>> ELSE <<>>
      CloseOf(o) == Tok(o.k \o "/", "", "", "", "")
  IN
  pre \o Nls(lb1) \o Dashes(dash) \o <<open>> \o Nls(lbin) \o inner
      \o Dashes(dash) \o <<CloseOf(open)>> \o Nls(lb2) \o post

\* The arguments of frag: the statement text, without a guard or with one of
\* a kind, the frags of the call, the bind set, and the connection's
\* conn.sql.dialect and conn.version.
Plain(text, keys, binds, cd, cv) ==
  [kind |-> "plain", text |-> text, pre |-> text, lb1 |-> 0, dash |-> FALSE,
   open |-> Txt(""), lbin |-> 0, inner |-> <<>>, lb2 |-> 0, post |-> <<>>,
   keys |-> keys, binds |-> binds, cd |-> cd, cv |-> cv]

Span(pre, lb1, dash, open, lbin, inner, lb2, post, keys, binds, cd, cv) ==
  [kind |-> open.k,
   text |-> SpanText(pre, lb1, dash, open, lbin, inner, lb2, post),
   pre |-> pre, lb1 |-> lb1, dash |-> dash, open |-> open, lbin |-> lbin,
   inner |-> inner, lb2 |-> lb2, post |-> post,
   keys |-> keys, binds |-> binds, cd |-> cd, cv |-> cv]

Mixed(kind, text, keys, cd, cv) ==
  [kind |-> kind, text |-> text, pre |-> <<>>, lb1 |-> 0, dash |-> FALSE,
   open |-> Txt(""), lbin |-> 0, inner |-> <<>>, lb2 |-> 0, post |-> <<>>,
   keys |-> keys, binds |-> NoBinds, cd |-> cd, cv |-> cv]

Frags(keys) == [given |-> TRUE, keys |-> keys]

PlainTexts ==
  { <<>>,
    <<Txt("SELECT 1")>>,
    <<Txt("SELECT 1"), Nl, Txt("FROM T")>>,
    <<Txt("IN ("), Par("ids"), Txt(")")>>,
    <<Par("ids"), Txt(" OR B IN "), Par("ids")>>,
    <<Txt("A = "), ParDigits("ids", "1")>>,
    <<Par("ids"), Txt(" AND A = "), ParDigits("ids", "1")>> }

FragBindSets ==
  LET IdsValues ==
        { Num("7"), Arr(<<Num("10"), Num("20"), Num("30")>>),
          Arr(<<Num("10")>>), Arr(<<>>) }
      Ids1Values == { Num("5"), Arr(<<Num("1"), Num("2")>>) }
  IN
  {NoBinds}
    \cup {[n \in {"ids"} |-> v] : v \in IdsValues}
    \cup {[n \in {"ids1"} |-> w] : w \in Ids1Values}
    \cup {[n \in {"ids", "ids1"} |-> IF n = "ids" THEN v ELSE w] :
            v \in IdsValues, w \in Ids1Values}

Dialects == {"Oracle", "mssql"}
ThreeTens == [n \in {"ids"} |-> Arr(<<Num("10"), Num("20"), Num("30")>>)]

PlainInputs ==
  { Plain(text, keys, binds, cd, cv) :
      text \in PlainTexts, keys \in {NoFrags, Frags({"k1"})},
      binds \in FragBindSets, cd \in Dialects,
      cv \in {NoVersion, Version(20)} }

DiaInputs ==
  { Span(pre, lb[1], dash, DiaOpen(name), lb[2], inner, lb[3], post,
         NoFrags, binds, cd, NoVersion) :
      pre \in {<<>>, <<Txt("IN ("), Par("ids"), Txt(")")>>}, lb \in [1..3 -> 0..1], dash \in BOOLEAN,
      name \in {"oracle", "ORACLE", "mssql"}, inner \in { <<>>, <<Txt("AND Y = 1")>>, <<Txt("AND Y = "), Par("y"), Nl, Txt("AND Z")>> },
      post \in {<<>>, <<Txt("ORDER BY 1")>>}, binds \in {NoBinds, ThreeTens}, cd \in Dialects }

VerInputs ==
  { Span(<<Txt("SELECT 1")>>, lb[1], FALSE, VerOpen(op, sg, lit), 0, inner,
         lb[2], <<>>, NoFrags, NoBinds, "Oracle", cv) :
      lb \in [1..2 -> 0..1], op \in Comparators, sg \in {"", "-", "+"},
      lit \in {"2", "1.9", "abc", "2x"},
      inner \in {<<>>, <<Txt("AND Y = 1")>>}, cv \in {NoVersion, Version(19), Version(20), Version(21)} }

SelInputs ==
  { Span(pre, lb[1], dash, SelOpen(key), lb[2], inner, lb[3], post,
         keys, NoBinds, "Oracle", NoVersion) :
      pre \in {<<>>, <<Txt("IN ("), Par("ids"), Txt(")")>>}, lb \in [1..3 -> 0..1], dash \in BOOLEAN,
      key \in {"k1", "k2"}, inner \in {<<>>, <<Txt("AND Y = 1")>>},
      post \in {<<>>, <<Txt("ORDER BY 1")>>},
      keys \in {NoFrags, Frags({}), Frags({"k1"}), Frags({"k1", "k2"})} }

\* Texts with more than one guard, and with markers that have no partner.
MixedTexts ==
  { <<DiaOpen("oracle"), Txt("X"), DiaClose, Nl,
      DiaOpen("mssql"), Txt("Y"), DiaClose>>,
    <<SelOpen("k1"), Txt("X"), DiaOpen("oracle"), Txt("Y"), DiaClose, SelClose>>,
    <<DiaOpen("oracle"), Txt("X"), VerOpen(">=", "", "2"), Txt("Y"), VerClose,
      DiaClose, Txt("Z")>>,
    <<SelOpen("k1"), DiaOpen("oracle"), Txt("X"), SelClose, Txt("Y"), DiaClose>>,
    <<DiaOpen("oracle"), Txt("X")>>,
    <<Txt("X"), Nl, SelClose>>,
    <<VerOpen(">=", "", "abc"), Txt("X"), VerClose, Nl, SelOpen("k1"),
      Txt("Y"), SelClose>> }

\* Texts with a guard inside a guard of its kind.
NestedTexts ==
  { <<DiaOpen("oracle"), Txt("X"), DiaOpen("oracle"), Txt("Y"), DiaClose,
      Txt("Z"), DiaClose>>,
    <<SelOpen("k1"), Txt("X"), SelOpen("k1"), Txt("Y"), SelClose,
      Txt("Z"), SelClose>> }

MixedInputs ==
  { Mixed("mixed", text, keys, cd, cv) :
      text \in MixedTexts, keys \in {NoFrags, Frags({"k1"})}, cd \in Dialects,
      cv \in {NoVersion, Version(20)} }
    \cup { Mixed("nested", text, keys, cd, NoVersion) :
      text \in NestedTexts, keys \in {NoFrags, Frags({"k1"})}, cd \in Dialects }

FragInputs ==
  PlainInputs \cup DiaInputs \cup VerInputs \cup SelInputs \cup MixedInputs

FragInit ==
  /\ LifeIdle
  /\ CtorIdle
  /\ TreeIdle
  /\ prefix = "read"
  /\ cacheOn = FALSE
  /\ connBinds = <<>>
  /\ pending = 0
  /\ store = NoEntry
  /\ sets = {}
  /\ calls = <<>>
  /\ disk = FileText
  /\ kept = <<>>
  /\ prepared = FALSE
  /\ freads = 0
  /\ hlimit = 0
  /\ fin \in FragInputs
  /\ dialect = ToLowerCase(fin.cd)
  /\ version = DbsVersion(fin.cv)
  /\ fruns = <<>>

\* DBS.frag(sql, keys, rplmts), lines 561-580
DbsFrag ==
  /\ fruns = <<>>
  /\ fruns' = <<frag(fin.text, fin.keys, fin.binds)>>
  /\ UNCHANGED <<lifeVars, callVars, fileVars, dialect, version, fin, conf, ctor, treeVars>>

\* DBS.frag on the text and the bind set that its run before left.
DbsFragAgain ==
  /\ fruns # <<>>
  /\ Len(fruns) < MaxRuns
  /\ fruns' = Append(fruns, frag(fruns[Len(fruns)].sql, fin.keys,
                                 fruns[Len(fruns)].binds))
  /\ UNCHANGED <<lifeVars, callVars, fileVars, dialect, version, fin, conf, ctor, treeVars>>

FragNext == DbsFrag \/ DbsFragAgain

SpecFrag == FragInit /\ [][FragNext]_vars

\* ------------------------------------------- a handle without a cache
FileTexts == {FileText, <<Txt("SELECT 2 FROM "), Txt("TBL")>>}

\* The options of the calls looked at here.
StaticOptions ==
  [given : {TRUE}, type : {"", "UPDATE"}, hasBinds : {FALSE},
   binds : {NoBinds}, returnErrors : {FALSE}]

StaticInit ==
  /\ LifeIdle
  /\ prefix = "read"
  /\ cacheOn = FALSE
  /\ connBinds = <<>>
  /\ pending = 0
  /\ store = NoEntry
  /\ sets = {}
  /\ calls = <<>>
  /\ disk \in FileTexts
  /\ kept = <<>>
  /\ prepared = FALSE
  /\ freads = 0
  /\ hlimit = MaxCalls
  /\ FragIdle
  /\ CtorIdle
  /\ TreeIdle

\* prepared(), lines 401-407, without a cache: the file is read, substituted
\* and kept, and the handle is built.
Prepared ==
  /\ ~prepared
  /\ ~cacheOn
  /\ freads' = freads + 1
  /\ kept' = Substituted(disk)
  /\ prepared' = TRUE
  /\ UNCHANGED <<lifeVars, callVars, disk, hlimit, fragVars, conf, ctor, treeVars>>

\* Somebody changes the file.
FileChange(text) ==
  /\ text # disk
  /\ disk' = text
  /\ UNCHANGED <<lifeVars, callVars, kept, prepared, freads, hlimit, fragVars, conf, ctor, treeVars>>

StaticNext ==
  \/ Prepared
  \/ \E text \in FileTexts : FileChange(text)
  \/ \E opts \in StaticOptions : execSqlPublic(opts, NoFrags)
  \/ \E i \in 1..Len(calls) : ExecReturn(i)
  \/ \E i \in 1..Len(calls) : ExecFail(i)

SpecStatic == StaticInit /\ [][StaticNext]_vars

\* ------------------------------- a driver call that never returns
\* One lifecycle call while the driver of connection A never answers: its
\* init, commit, rollback or close neither returns nor fails. The event
\* loop runs every callback that is ready, and the other drivers answer,
\* so what the other connections' tasks wait for does happen.
HangNext ==
  \/ ManagerInit
  \/ \E opts \in LifecycleOpts, connNames \in ConnNameArgs :
       ManagerCommit(opts, connNames)
  \/ \E opts \in LifecycleOpts, connNames \in ConnNameArgs :
       ManagerRollback(opts, connNames)
  \/ ManagerClose
  \/ \E b \in 1..Len(batches), c \in ConnNames : WalkDone(b, c)
  \/ \E b \in 1..Len(batches), c \in ConnNames :
       \E k \in 0..Files[c] : WalkFail(b, c, k)
  \/ \E b \in 1..Len(batches), c \in ConnNames \ {"A"} :
       \E r \in DriverResults(batches[b], c) : DriverReturn(b, c, r)
  \/ \E b \in 1..Len(batches), c \in ConnNames \ {"A"} : DriverFail(b, c)
  \/ \E b \in 1..Len(batches) : Settle(b)

SpecHang ==
  /\ Init
  /\ [][HangNext]_vars
  /\ \A c \in {"B", "C", "D"} :
       WF_vars(/\ c \in ConnNames
               /\ \E b \in 1..Len(batches) :
                    \/ WalkDone(b, c)
                    \/ \E r \in DriverResults(batches[b], c) :
                         DriverReturn(b, c, r))

\* ------------------------------------------------ new Manager(conf)
\* conf.db.dialects: the dialects that have a driver.
ConfDialects == {"oracle"}

\* The connections of conf.db.connections ("": the property is missing);
\* conf.univ.db defines the ids x and y.
CtorInit ==
  /\ sqls = <<"A">>
  /\ sqlsCount = 0
  /\ numOfPreparedStmts = [c \in {"A"} |-> 0]
  /\ built = [c \in {"A"} |-> 0]
  /\ batches = <<>>
  /\ limit = 0
  /\ initDone = FALSE
  /\ CallIdle
  /\ TreeIdle
  /\ conf \in UNION
       {[1..n -> [id : {"", "x", "y", "q"}, name : {"", "a", "b"},
                  dialect : {"Oracle", "db2"}]] : n \in 1..MaxConns}
  /\ ctor = [i |-> 0, names |-> {}, sqls |-> <<>>, status |-> "running",
             err |-> "none"]

\* Manager constructor, lines 174-204: one turn of the for-loop, with the
\* SQLS constructor (line 317) it calls.
CtorStep ==
  /\ ctor.status = "running"
  /\ ctor.i < Len(conf)
  /\ LET conn == conf[ctor.i + 1]
         CtorThrow(err) == [ctor EXCEPT !.status = "thrown", !.err = err]
     IN
     ctor' =
       IF conn.id = "" THEN CtorThrow("NoId")
       ELSE IF conn.id \notin {"x", "y"} THEN CtorThrow("InvalidId")
       ELSE IF ToLowerCase(conn.dialect) \notin ConfDialects
         THEN CtorThrow("NoDialect")
       ELSE IF conn.name # "" /\ conn.name \in ctor.names
         THEN CtorThrow("DuplicateName")
       ELSE IF conn.name = ""
         THEN [CtorThrow("NoName") EXCEPT !.names = @ \cup {"undefined"}]
       ELSE [ctor EXCEPT !.i = @ + 1, !.names = @ \cup {conn.name},
                         !.sqls = Append(@, conn.name)]
  /\ UNCHANGED <<lifeVars, callVars, fileVars, fragVars, conf, treeVars>>

\* Manager constructor, line 205: the loop is through.
CtorReturn ==
  /\ ctor.status = "running"
  /\ ctor.i = Len(conf)
  /\ ctor' = [ctor EXCEPT !.status = "constructed"]
  /\ UNCHANGED <<lifeVars, callVars, fileVars, fragVars, conf, treeVars>>

CtorNext == CtorStep \/ CtorReturn

SpecCtor == CtorInit /\ [][CtorNext]_vars

\* ------------------------------------------- SQLS.init: the tree walk
\* The files that may lie under the directory of connection A: read.a.sql,
\* read_a.sql, read.a.txt, read.sql, find.sql, and read.sql in the
\* subdirectory read. A file is written as prepare() takes it apart (lines
\* 347, 351-353): pnm from its directory, ns and ext from its sanitized
\* name split at the dots.
TreeFiles ==
  { [pnm |-> "", ns |-> <<"read", "a">>, ext |-> "sql"],
    [pnm |-> "", ns |-> <<"read_a">>, ext |-> "sql"],
    [pnm |-> "", ns |-> <<"read", "a">>, ext |-> "txt"],
    [pnm |-> "", ns |-> <<"read">>, ext |-> "sql"],
    [pnm |-> "", ns |-> <<"find">>, ext |-> "sql"],
    [pnm |-> "read", ns |-> <<"read">>, ext |-> "sql"] }

\* prepare(), line 354: the identity string of the file's leaf.
NameOf(f) ==
  LET RECURSIVE Join(_)
      Join(ns) == IF Len(ns) = 1 THEN ns[1] ELSE ns[1] \o "_" \o Join(Tail(ns))
  IN "oracle_A_" \o (IF f.pnm # "" THEN f.pnm \o "_" ELSE "") \o Join(f.ns)

\* prepare(), lines 347-348, 355-358: the path of the file's leaf in the
\* tree, from sqls.at.db.
PathOf(f) == (IF f.pnm # "" THEN <<f.pnm>> ELSE <<>>) \o f.ns

\* SQLS.init, lines 334-337: the walk begins.
TreeInit ==
  /\ LifeIdle
  /\ prefix = "read"
  /\ cacheOn \in BOOLEAN
  /\ connBinds = <<>>
  /\ pending = 0
  /\ store = NoEntry
  /\ sets = {}
  /\ calls = <<>>
  /\ disk = FileText
  /\ kept = <<>>
  /\ prepared = FALSE
  /\ freads = 0
  /\ hlimit = 0
  /\ FragIdle
  /\ CtorIdle
  /\ files \in SUBSET TreeFiles \ {{}}
  /\ todo = files
  /\ walk = [top |-> "walking",
             sub |-> IF \E f \in files : f.pnm # "" THEN "todo" ELSE "none",
             reported |-> 0, err |-> "none"]
  /\ logging \in BOOLEAN
  /\ db = <<>>
  /\ methods = <<>>
  /\ cached = <<>>
  /\ lcall = <<>>

\* prepare(), lines 346-349: the entry is a directory. Its node in the tree
\* is set to a new object, whatever was there, and its own prepare() begins.
PrepareDir ==
  /\ walk.top = "walking"
  /\ walk.sub = "todo"
  /\ walk' = [walk EXCEPT !.sub = "walking"]
  /\ db' = [p \in {q \in DOMAIN db : q = <<>> \/ q[1] # "read"} \cup {<<"read">>} |->
              IF p = <<"read">> THEN [leaf |-> FALSE, file |-> <<>>] ELSE db[p]]
  /\ UNCHANGED <<lifeVars, callVars, fileVars, fragVars, conf, ctor,
                 files, todo, logging, methods, cached, lcall>>

\* prepare(), lines 351-358, with prepared(), lines 377-408: the entry is a
\* file. A node that is in the tree already is kept (so[x] = so[x] || ...),
\* so prepared() is called only when the file's path is free; with logging
\* set and no category in the file name, line 384 reads OPERATION_TYPES, an
\* identifier bound nowhere in the module, and prepared() throws.
PrepareFile(f) ==
  /\ f \in todo
  /\ IF f.pnm = "" THEN walk.top = "walking" ELSE walk.sub = "walking"
  /\ LET base == IF f.pnm # "" THEN <<f.pnm>> ELSE <<>>
         called == PathOf(f) \notin DOMAIN db
         throws == called /\ logging /\ CrudOf(f.ns[1]) = "null"
         inner == {base \o SubSeq(f.ns, 1, ni) : ni \in 1..(Len(f.ns) - 1)}
         leaves == IF called /\ ~throws THEN {PathOf(f)} ELSE {}
     IN
     /\ todo' = todo \ {f}
     /\ db' = [p \in DOMAIN db \cup inner \cup leaves |->
                 IF p \in DOMAIN db THEN db[p]
                 ELSE IF p \in leaves THEN [leaf |-> TRUE, file |-> f]
                 ELSE [leaf |-> FALSE, file |-> <<>>]]
     /\ IF called /\ ~throws
          THEN /\ methods' = [n \in DOMAIN methods \cup {NameOf(f)} |->
                                IF n = NameOf(f) THEN [e \in {f.ext} |-> f]
                                ELSE methods[n]]
               /\ numOfPreparedStmts' = [numOfPreparedStmts EXCEPT !["A"] = @ + 1]
          ELSE UNCHANGED <<methods, numOfPreparedStmts>>
     /\ walk' = IF ~throws THEN walk
                ELSE IF f.pnm = ""
                  THEN [walk EXCEPT !.top = "failed", !.err = "ReferenceError"]
                  ELSE [walk EXCEPT !.sub = "failed", !.err = "ReferenceError"]
  /\ UNCHANGED <<sqls, sqlsCount, built, batches, limit, initDone, callVars,
                 fileVars, fragVars, conf, ctor, files, logging, cached, lcall>>

\* prepare(), line 360, and SQLS.init, line 367: the directory is through
\* and so is the prepare() of the subdirectory; the counter is handed to the
\* driver's init.
WalkEnd ==
  /\ walk.top = "walking"
  /\ walk.sub \in {"none", "walking", "failed"}
  /\ todo = {}
  /\ walk' = IF walk.sub = "failed"
               THEN [walk EXCEPT !.top = "failed"]
               ELSE [walk EXCEPT !.top = "done",
                                 !.sub = IF @ = "walking" THEN "done" ELSE @,
                                 !.reported = numOfPreparedStmts["A"]]
  /\ UNCHANGED <<lifeVars, callVars, fileVars, fragVars, conf, ctor,
                 files, todo, logging, db, methods, cached, lcall>>

\* execSqlPublic(), lines 424-440, of the leaf at path p, called with
\* opts.type = type ("": none), and the cachedSql or staticSql it finds in
\* sqls.at.stms.methods under the leaf's name and extension (line 439).
\* With a cache the text is the one the cache holds under the id, or else
\* the one of the file that function reads.
CallLeaf(p, type) ==
  /\ p \in DOMAIN db
  /\ db[p].leaf
  /\ LET f == db[p].file
         id == <<NameOf(f), f.ext>>
         cl == [path |-> p, file |-> f, given |-> type,
                type |-> IF type # "" THEN type ELSE CrudOf(f.ns[1]),
                ran |-> <<>>, err |-> "none"]
     IN
     IF CrudOf(f.ns[1]) = "null" /\ type = ""
       THEN lcall' = [cl EXCEPT !.err = "ReferenceError"] /\ UNCHANGED cached
     ELSE IF f.ext \notin DOMAIN methods[NameOf(f)]
       THEN lcall' = [cl EXCEPT !.err = "TypeError"] /\ UNCHANGED cached
     ELSE IF cacheOn /\ id \in DOMAIN cached
       THEN lcall' = [cl EXCEPT !.ran = cached[id]] /\ UNCHANGED cached
     ELSE /\ lcall' = [cl EXCEPT !.ran = methods[NameOf(f)][f.ext]]
          /\ cached' = IF cacheOn
                          THEN [i \in DOMAIN cached \cup {id} |->
                                  IF i = id THEN methods[NameOf(f)][f.ext]
                                  ELSE cached[i]]
                          ELSE cached
  /\ UNCHANGED <<lifeVars, callVars, fileVars, fragVars, conf, ctor,
                 files, todo, walk, logging, db, methods>>

TreeNext ==
  \/ PrepareDir
  \/ \E f \in TreeFiles : PrepareFile(f)
  \/ WalkEnd
  \/ \E p \in DOMAIN db, type \in {"", "READ"} : CallLeaf(p, type)

SpecTree == TreeInit /\ [][TreeNext]_vars

\* -------------------------- handle calls among lifecycle operations
\* One connection, its handle built without a cache; the application calls
\* the handle and the Manager's commit, rollback and close in any order.
TxInit ==
  /\ sqls = <<"A">>
  /\ sqlsCount = 0
  /\ numOfPreparedStmts = [c \in {"A"} |-> 0]
  /\ built = [c \in {"A"} |-> 0]
  /\ batches = <<>>
  /\ limit = MaxCalls
  /\ initDone = FALSE
  /\ prefix = "read"
  /\ cacheOn = FALSE
  /\ connBinds = <<>>
  /\ pending = 0
  /\ store = NoEntry
  /\ sets = {}
  /\ calls = <<>>
  /\ disk = FileText
  /\ kept = Substituted(FileText)
  /\ prepared = TRUE
  /\ freads = 1
  /\ hlimit = MaxCalls
  /\ FragIdle
  /\ CtorIdle
  /\ TreeIdle

TxNext ==
  \/ ManagerCommit(NoOpts, {})
  \/ ManagerRollback(NoOpts, {})
  \/ ManagerClose
  \/ \E b \in 1..Len(batches), c \in ConnNames :
       \E r \in DriverResults(batches[b], c) : DriverReturn(b, c, r)
  \/ \E b \in 1..Len(batches), c \in ConnNames : DriverFail(b, c)
  \/ \E b \in 1..Len(batches) : Settle(b)
  \/ \E opts \in StaticOptions : execSqlPublic(opts, NoFrags)
  \/ \E i \in 1..Len(calls) : ExecReturn(i)
  \/ \E i \in 1..Len(calls) : ExecFail(i)

SpecTx == TxInit /\ [][TxNext]_vars

\* ------------------------------------------------------------------ claims
RECURSIVE SumOver(_, _)
SumOver(f, S) ==
  IF S = {} THEN 0
  ELSE LET c == CHOOSE x \in S : TRUE IN f[c] + SumOver(f, S \ {c})

Batches == {batches[b] : b \in 1..Len(batches)}

\* C2: in a commit or rollback batch every selected connection's task is in
\* the sequential lane iff its own executeInSeries override is truthy when
\* opts.connections has one for it, iff opts.executeInSeries is truthy
\* otherwise; and its operation is run (at once in the concurrent lane).
C2_LaneFollowsOverride ==
  \A bt \in Batches :
    bt.op \in {"commit", "rollback"} =>
      \A c \in Selected(bt.filter) :
        LET m == bt.opts.connections.map
            own == bt.opts.connections.present /\ c \in DOMAIN m /\ m[c].has
            series == IF own THEN m[c].executeInSeries
                      ELSE bt.opts.executeInSeries
        IN /\ bt.lane[c] = (IF series THEN "seq" ELSE "par")
           /\ bt.st[c] # "none"
           /\ bt.lane[c] = "par" => bt.drv[c] = <<bt.op>>

C5_OncePerSelected ==
  \A bt \in Batches :
    (/\ bt.status # "pending"
     /\ bt.err # AlreadyInitialized
     /\ \A c \in ConnNames : bt.st[c] # "failed")
      => /\ \A c \in ConnNames :
              bt.drv[c] = IF c \in Selected(bt.filter) THEN <<bt.op>> ELSE <<>>
         /\ (bt.status = "resolved" /\ bt.op # "init")
              => (bt.ret.kind = "map" /\ DOMAIN bt.ret.map = Selected(bt.filter))

\* C6: a resolved Manager.init returns the map from every connection name to
\* the number of leaf handles built for it, and the stored total is their
\* sum.
C6_InitReturnsLeafCounts ==
  \A bt \in Batches :
    (bt.op = "init" /\ bt.status = "resolved")
      => /\ \A c \in ConnNames :
              /\ bt.ret.kind = "map"
              /\ c \in DOMAIN bt.ret.map
              /\ bt.ret.map[c] = Count(built[c])
         /\ sqlsCount = SumOver(built, ConnNames)

\* C7: a Manager.init called after an earlier Manager.init has returned
\* fails as already initialized and starts no directory walk and no driver
\* init.
C7_LaterInitRefused ==
  \A bt \in Batches :
    (bt.op = "init" /\ bt.late)
      => /\ bt.err = AlreadyInitialized
         /\ \A c \in ConnNames : bt.walks[c] = 0 /\ bt.drv[c] = <<>>

Calls == {calls[i] : i \in 1..Len(calls)}

\* C1: when the driver's exec fails, a call made with returnErrors set
\* returns the driver's error as its value and raises nothing, and a call
\* made without it raises the driver's error.
C1_ReturnErrors ==
  \A cl \in Calls :
    (cl.err = "DriverError" \/ cl.ret = "DriverError")
      => IF cl.opts.returnErrors
           THEN cl.pc = "returned" /\ cl.ret = "DriverError" /\ cl.err = "none"
           ELSE cl.pc = "thrown" /\ cl.err = "DriverError"

\* C8: a call of a handle without inferred category that gives no type fails
\* with the category-required error, and nothing is submitted for it: no
\* cache get, no disk read, no driver exec, the pending counter unchanged;
\* with type READ the call of a handle without cache is at the driver.
C8_CategoryRequired ==
  \A cl \in Calls :
    /\ (crud = "null" /\ (~cl.opts.given \/ cl.opts.type = ""))
         => /\ cl.pc = "thrown" /\ cl.err = "CategoryRequired"
            /\ cl.gets = 0 /\ cl.reads = 0 /\ cl.execs = 0
            /\ pending = 0
    /\ (crud = "null" /\ cl.opts.given /\ cl.opts.type = "READ" /\ ~cacheOn)
         => cl.execs = 1 /\ cl.handed.type = "READ"

\* C9: a call without opts of a handle with an inferred category does not
\* fail for the missing opts, and what the driver gets for it is the
\* inferred category and the connection's binds; a handle without cache has
\* it at the driver at once.
C9_OptsOptional ==
  \A cl \in Calls :
    (~cl.opts.given /\ crud # "null")
      => /\ cl.err # "TypeError"
         /\ ~cacheOn => cl.execs = 1
         /\ cl.execs = 1 => (cl.handed.type = crud /\ cl.binds0 = connBinds)

\* C10, as claimed: the bind set handed to the resolver has the names of the
\* connection's binds and of the call's binds and no other, the call's value
\* under every name of the call's binds, the connection's under the others.
C10_BindsOverlay ==
  \A cl \in Calls :
    cl.resolved =>
      LET cb == CallBinds(cl.opts) IN
      /\ DOMAIN cl.binds0 = DOMAIN connBinds \cup DOMAIN cb
      /\ \A n \in DOMAIN cb : cl.binds0[n] = cb[n]
      /\ \A n \in DOMAIN connBinds \ DOMAIN cb : cl.binds0[n] = connBinds[n]

\* C10, amended: as claimed, but under a name of the call's binds whose value
\* is a date the bind set has the date's ISO text.
C10_BindsOverlayIso ==
  \A cl \in Calls :
    cl.resolved =>
      LET cb == CallBinds(cl.opts) IN
      /\ DOMAIN cl.binds0 = DOMAIN connBinds \cup DOMAIN cb
      /\ \A n \in DOMAIN cb :
           cl.binds0[n] = IF cb[n].t = "date" THEN Str("iso:" \o cb[n].v) ELSE cb[n]
      /\ \A n \in DOMAIN connBinds \ DOMAIN cb : cl.binds0[n] = connBinds[n]

C10_Witness ==
  \E cl \in Calls :
    /\ cl.pc = "exec" /\ cl.resolved
    /\ DOMAIN connBinds = {"a", "b"}
    /\ DOMAIN CallBinds(cl.opts) = {"a"}
    /\ cl.binds0["a"] = Num("2") /\ connBinds["a"] = Num("1")
    /\ cl.binds0["b"] = connBinds["b"]

\* C11: no bind value of the bind set a call hands to the driver's exec is a
\* date/time value, whether it came from the call's binds or from the
\* connection's default binds: each one has been replaced by its ISO text.
C11_DatesNormalized ==
  \A cl \in Calls :
    cl.execs = 1 =>
      \A n \in DOMAIN cl.handed.binds : cl.handed.binds[n].t # "date"

\* ---------------------------------------------------- claims on DBS.frag
Range(seq) == {seq[i] : i \in 1..Len(seq)}

\* The text has the tokens of part next to one another, in their order.
Contains(text, part) ==
  \E i \in 0..(Len(text) - Len(part)) :
    SubSeq(text, i + 1, i + Len(part)) = part

FullName(tok) == tok.v \o tok.d

ParTokens(text) == {tok \in Range(text) : tok.k = "par"}

\* The value under name n is an ordered collection of one value or more.
Collection(binds, n) ==
  n \in DOMAIN binds /\ binds[n].t = "arr" /\ Len(binds[n].e) >= 1

\* The value under name n is a scalar, or there is none.
ScalarOrAbsent(binds, n) == n \notin DOMAIN binds \/ binds[n].t # "arr"

\* :name, :name1, ..., :name(n-1)
RECURSIVE Siblings(_, _, _)
Siblings(tok, i, n) ==
  IF i >= n THEN <<>>
  ELSE (IF i = 0 THEN <<tok>>
        ELSE <<Txt(", "), ParDigits(tok.v, tok.d \o ToString(i))>>)
         \o Siblings(tok, i + 1, n)

RECURSIVE EveryOccurrenceExpanded(_, _, _)
EveryOccurrenceExpanded(text, i, binds) ==
  IF i > Len(text) THEN <<>>
  ELSE (IF text[i].k = "par" /\ Collection(binds, FullName(text[i]))
          THEN Siblings(text[i], 0, Len(binds[FullName(text[i])].e))
          ELSE <<text[i]>>)
         \o EveryOccurrenceExpanded(text, i + 1, binds)

FirstRun == fruns[1]

\* C12: when every parameter token of a text without guards has an ordered
\* collection of n >= 1 values for its bind value, the resolved text is the
\* text with every occurrence of a token :name replaced by the list
\* :name, :name1, ..., :name(n-1), and the bind set after resolution has v0
\* under name and vi under name<i> for 1 <= i < n.
C12_EveryOccurrenceExpanded ==
  (/\ Len(fruns) >= 1
   /\ fin.kind = "plain"
   /\ \A tok \in ParTokens(fin.text) : Collection(fin.binds, FullName(tok)))
    => /\ FirstRun.sql = EveryOccurrenceExpanded(fin.text, 1, fin.binds)
       /\ \A tok \in ParTokens(fin.text) :
            LET n == FullName(tok)
                vals == fin.binds[n].e
            IN /\ n \in DOMAIN FirstRun.binds
               /\ FirstRun.binds[n] = vals[1]
               /\ \A i \in 1..(Len(vals) - 1) :
                    /\ (n \o ToString(i)) \in DOMAIN FirstRun.binds
                    /\ FirstRun.binds[n \o ToString(i)] = vals[i + 1]

\* C13: in a text without guards, a text none of whose parameter tokens has
\* an ordered collection for its bind value is resolved to itself, and every
\* parameter name of the text whose bind value is a scalar, or that has no
\* bind value, has the same entry in the bind set after resolution as before
\* (the same value, or none), whatever the other binds of the call are.
C13_ScalarsUntouched ==
  (Len(fruns) >= 1 /\ fin.kind = "plain")
    => /\ (\A tok \in ParTokens(fin.text) :
             ScalarOrAbsent(fin.binds, FullName(tok)))
            => FirstRun.sql = fin.text
       /\ \A tok \in ParTokens(fin.text) :
            LET n == FullName(tok) IN
            ScalarOrAbsent(fin.binds, n)
              => /\ (n \in DOMAIN FirstRun.binds) = (n \in DOMAIN fin.binds)
                 /\ n \in DOMAIN fin.binds => FirstRun.binds[n] = fin.binds[n]

\* Two dialect names are the same but for the case of their letters.
Folded(name) == IF name \in {"oracle", "Oracle", "ORACLE"} THEN "oracle" ELSE name
EqualIgnoringCase(a, b) == Folded(a) = Folded(b)

Markers == {"dia", "dia/", "ver", "ver/", "sel", "sel/"}
NoMarkerIn(text) == \A tok \in Range(text) : tok.k \notin Markers
NoneOfIn(part, text) == \A tok \in Range(part) : tok \notin Range(text)

\* What is before the span, as array expansion leaves it.
PreExpanded == sqlArrayRpl(fin.pre, 1, fin.binds).sql

\* The whole span collapsed: a single space when a line break adjoined
\* either boundary, nothing otherwise.
SpanCollapsed ==
  PreExpanded \o (IF fin.lb1 > 0 \/ fin.lb2 > 0 THEN <<Txt(" ")>> ELSE <<>>)
              \o fin.post

\* C14: of a text with one dialect guard, the resolved text has neither
\* marker; when the guard's name is the connection's dialect but for the
\* case of the letters it contains the inner text, otherwise it contains
\* none of the inner text and is the text with the whole span replaced by a
\* single space when a line break adjoined either boundary, by nothing
\* otherwise.
C14_DialectGuard ==
  (Len(fruns) >= 1 /\ fin.kind = "dia")
    => /\ NoMarkerIn(FirstRun.sql)
       /\ IF EqualIgnoringCase(fin.open.v, fin.cd)
            THEN Contains(FirstRun.sql, fin.inner)
            ELSE /\ NoneOfIn(fin.inner, FirstRun.sql)
                 /\ FirstRun.sql = SpanCollapsed

C14_Witness ==
  /\ Len(fruns) >= 1 /\ fin.kind = "dia"
  /\ fin.open.v = "ORACLE" /\ fin.cd = "Oracle"
  /\ Len(fin.inner) = 4 /\ fin.lb1 = 1 /\ fin.dash /\ fin.pre # <<>>
  /\ Contains(FirstRun.sql, fin.inner)

\* The number a version guard's literal denotes, in tenths.
Literal(open) ==
  IF open.sg = "-" THEN 0 - ParseFloat[open.v] ELSE ParseFloat[open.v]

Numeric(open) == open.v \in {"1", "1.9", "2"}

\* C15: of a text with one version guard [[version OP N]] whose literal N is
\* numeric and whose inner text is not empty, the resolved text contains the
\* inner text iff V OP N holds, V being the connection's version, 0 when it
\* has none.
C15_VersionGuard ==
  (/\ Len(fruns) >= 1 /\ fin.kind = "ver"
   /\ Numeric(fin.open) /\ fin.inner # <<>>)
    => (Contains(FirstRun.sql, fin.inner)
          <=> COMPARE(fin.open.op, DbsVersion(fin.cv), Literal(fin.open)))

\* C16: of a text with one version guard whose literal is malformed or not
\* numeric, the resolved text contains none of the inner text, whatever the
\* connection's version and the comparator.
C16_MalformedNeverKept ==
  (Len(fruns) >= 1 /\ fin.kind = "ver" /\ ~Numeric(fin.open))
    => NoneOfIn(fin.inner, FirstRun.sql)

\* C17: of a text with one selection guard [[? key]] whose inner text is not
\* empty, the resolved text contains the inner text iff the call passed a
\* list of fragments and key is an element of it; otherwise it contains
\* none of the inner text.
C17_SelectionGuard ==
  (Len(fruns) >= 1 /\ fin.kind = "sel" /\ fin.inner # <<>>)
    => IF fin.keys.given /\ fin.open.v \in fin.keys.keys
         THEN Contains(FirstRun.sql, fin.inner)
         ELSE /\ ~Contains(FirstRun.sql, fin.inner)
              /\ NoneOfIn(fin.inner, FirstRun.sql)

C17_Witness ==
  /\ Len(fruns) >= 1 /\ fin.kind = "sel" /\ fin.inner # <<>>
  /\ fin.open.v = "k2" /\ fin.keys = Frags({"k1", "k2"})
  /\ fin.lb2 = 1 /\ fin.post # <<>>
  /\ Contains(FirstRun.sql, fin.inner)

\* C18, as claimed: a text without a guard marker is resolved to itself,
\* whatever the dialect, the version, the list of fragments and the bind
\* set.
C18_PlainIdentity ==
  (Len(fruns) >= 1 /\ NoMarkerIn(fin.text)) => FirstRun.sql = fin.text

\* C18, amended: a text without a guard marker is resolved to itself,
\* whatever the dialect, the version and the list of fragments, with every
\* bind set that holds no ordered collection.
C18_PlainIdentityScalars ==
  (/\ Len(fruns) >= 1 /\ NoMarkerIn(fin.text)
   /\ \A n \in DOMAIN fin.binds : fin.binds[n].t # "arr")
    => FirstRun.sql = fin.text

C18_Witness ==
  /\ Len(fruns) >= 1 /\ NoMarkerIn(fin.text)
  /\ fin.text = <<Par("ids"), Txt(" AND A = "), ParDigits("ids", "1")>>
  /\ DOMAIN fin.binds = {"ids", "ids1"}
  /\ fin.binds["ids"] = Num("7") /\ fin.binds["ids1"] = Num("5")
  /\ FirstRun.sql = fin.text

\* C19: of a text in which no guard is inside a guard of its kind, every run
\* of the resolver on the text and the bind set that the run before it left,
\* with the same dialect, version and list of fragments, returns that text
\* and leaves that bind set.
C19_Idempotent ==
  fin.kind # "nested"
    => \A r \in 2..Len(fruns) : fruns[r] = fruns[r - 1]

C19_Witness ==
  /\ Len(fruns) >= 2
  /\ fin.kind = "dia" /\ fin.binds = ThreeTens /\ fin.pre # <<>>
  /\ fin.inner # <<>> /\ fin.open.v = "oracle" /\ fin.cd = "Oracle"
  /\ FirstRun.sql # fin.text /\ FirstRun.binds # fin.binds
  /\ fruns[2] = FirstRun

\* ----------------------------------- claims on a handle without a cache
\* C20: without a cache, once prepared() has built the handle the file has
\* been read exactly once, no call of the handle reads it or asks a cache,
\* and every call hands the driver the substituted text that was read then,
\* the same for all calls, whatever the file holds by now.
C20_StaticReadOnce ==
  (prepared /\ ~cacheOn)
    => /\ freads = 1
       /\ \A cl \in Calls :
            /\ cl.reads = 0 /\ cl.gets = 0
            /\ cl.execs = 1 => cl.handed.sql = kept
       /\ \A cl, dl \in Calls :
            (cl.execs = 1 /\ dl.execs = 1) => cl.handed.sql = dl.handed.sql
       /\ \E text \in FileTexts : kept = Substituted(text)

C20_Witness ==
  /\ prepared /\ ~cacheOn /\ freads = 1
  /\ Len(calls) = 2
  /\ calls[1].execs = 1 /\ calls[2].execs = 1
  /\ calls[2].handed.sql = kept
  /\ kept # Substituted(disk)

NonReads(n) ==
  {i \in 1..n : calls[i].execs = 1 /\ calls[i].handed.type # "READ"}

C22_PendingCounts ==
  /\ pending = Cardinality(NonReads(Len(calls)))
  /\ \A i \in 1..Len(calls) :
       calls[i].execs = 1 => calls[i].handed.pending = Cardinality(NonReads(i))

C22_Witness ==
  /\ pending = 1
  /\ Len(calls) = 2
  /\ \E i \in 1..2 : calls[i].handed.type = "READ" /\ calls[i].pc = "returned"
  /\ \E i \in 1..2 : calls[i].handed.type = "UPDATE" /\ calls[i].pc = "thrown"
  /\ \E b \in 1..Len(batches) :
       batches[b].op = "commit" /\ batches[b].status = "resolved"
  /\ \E b \in 1..Len(batches) :
       batches[b].op = "close" /\ batches[b].status = "resolved"

\* C23: the constructor throws when a connection has no id, when two
\* connections have the same id, when two have the same name, or when a
\* connection's dialect has no driver; so a Manager that was constructed
\* has connections with pairwise distinct ids and pairwise distinct names,
\* each with an id and a dialect that has a driver.
C23_DistinctIdsAndNames ==
  ctor.status = "constructed" =>
    /\ \A i \in 1..Len(conf) :
         conf[i].id # "" /\ Folded(conf[i].dialect) \in ConfDialects
    /\ \A i, j \in 1..Len(conf) :
         i # j => conf[i].id # conf[j].id /\ conf[i].name # conf[j].name

\* C24: once SQLS.init is through, every file under the directory is in the
\* tree as its own callable leaf, at the path made of its subdirectory and
\* the segments of its name, and the number handed to the driver's init is
\* the number of files and the number of leaves in the tree.
LeafPaths == {p \in DOMAIN db : db[p].leaf}

C24_EveryFileItsLeaf ==
  walk.top = "done" =>
    /\ \A f \in files :
         PathOf(f) \in DOMAIN db /\ db[PathOf(f)] = [leaf |-> TRUE, file |-> f]
    /\ walk.reported = Cardinality(files)
    /\ walk.reported = Cardinality(LeafPaths)

\* C25: a call of the leaf built from file f that gets to its statement
\* finds one (no TypeError at the lookup) and hands on the text of f, not
\* the text of another file, with a cache and without.
C25_LeafRunsItsFile ==
  lcall # <<>> =>
    /\ lcall.err # "TypeError"
    /\ lcall.err = "none" => lcall.ran = lcall.file

\* C26: SQLS.init does not fail over a file whose name does not begin with
\* a category, with logging set or not: a directory with just that file is
\* walked to its end, the file's leaf is in the tree and counted, and a call
\* of the leaf with opts.type set runs under that type.
Uncategorized(f) == CrudOf(f.ns[1]) = "null"

C26_UncategorizedFileBuilt ==
  /\ walk.err # "ReferenceError"
  /\ \A f \in files :
       (Uncategorized(f) /\ files = {f} /\ todo = {})
         => /\ db[PathOf(f)] = [leaf |-> TRUE, file |-> f]
            /\ numOfPreparedStmts["A"] = 1
  /\ (lcall # <<>> /\ Uncategorized(lcall.file) /\ lcall.given # "")
       => lcall.err # "ReferenceError" /\ lcall.type = lcall.given

\* C27: in a lifecycle batch no task of the concurrent lane is left waiting
\* to be started, whatever the other tasks have done; while the driver call
\* of connection A never returns, every other task of the concurrent lane
\* that is under way comes to its end, every task registered after A's in
\* the sequential lane stays unstarted, and the batch never resolves.
Hangs(bt) == bt.st["A"] = "running"

Ended(b, c) == c \in ConnNames /\ batches[b].st[c] \in {"ok", "failed"}

C28_NoSecondStart ==
  \A b1, b2 \in 1..Len(batches) : \A c \in ConnNames :
    (b1 < b2 /\ batches[b1].op = "init" /\ batches[b2].op = "init"
       /\ batches[b1].walks[c] > 0)
      => batches[b2].walks[c] = 0 /\ batches[b2].drv[c] = <<>>
====
